---------------------------- MODULE Spec2Model ----------------------------
(***************************************************************************)
(* A model of the `movement` crate (src/src/lib.rs): the Watch value type, *)
(* its time-string parser, its two formatters, its arithmetic operators    *)
(* and its Display implementation.                                         *)
(*                                                                         *)
(* Strings are sequences of one-character strings.  The i64 of the source  *)
(* is a two's-complement integer of IntBits bits: TLC's own integers are   *)
(* 32 bits wide, so the width is scaled down and every i64 operation of    *)
(* the source goes through I64Add, I64Sub or I64Mul, which overflow at     *)
(* the scaled width exactly as the source's do at 64.  An overflowing      *)
(* operation panics when the build checks overflow (cargo's dev and test   *)
(* profiles) and wraps when it does not (the release profile); the         *)
(* variable overflow_checks holds which build is running.                  *)
(***************************************************************************)
EXTENDS Integers, Sequences, FiniteSets, TLC

VARIABLES
    overflow_checks,  \* the build: TRUE when integer overflow panics, FALSE when it wraps
    input,            \* the argument the run starts from (the string given to Watch::new)
    w,                \* the program's Watch: [start, offset, meridiem]
    last,             \* the last operation: its name, argument, the Watch before it, its result
    panicked,         \* the program has panicked
    nops              \* the number of operations so far

vars == <<overflow_checks, input, w, last, panicked, nops>>

(***************************************************************************)
(* Bounds of the model.                                                    *)
(***************************************************************************)
IntBits == 28

MaxOps == 2

(***************************************************************************)
(* i64 arithmetic.                                                         *)
(***************************************************************************)
Half == 2 ^ (IntBits - 1)

MaxInt == Half - 1

MinInt == 0 - Half

InRange(x) == MinInt <= x /\ x <= MaxInt

\* two's-complement wrap of x, for MinInt - Half <= x <= MaxInt + Half
Wrap(x) ==
    IF x > MaxInt THEN (x - Half) - Half
    ELSE IF x < MinInt THEN (x + Half) + Half
    ELSE x

\* the result of an operation: a value, or a panic
Ok(x) == [ok |-> TRUE, v |-> x]

Panic == [ok |-> FALSE, v |-> 0]

\* the Err of a Result
Err == [ok |-> FALSE, v |-> 0]

\* Rust's / on integers truncates toward zero (b > 0 here)
TruncDiv(a, b) == IF a >= 0 THEN a \div b ELSE 0 - ((0 - a) \div b)

\* Rust's % takes the sign of the dividend
TruncRem(a, b) == a - b * TruncDiv(a, b)

Overflowed(wrapped) == IF overflow_checks THEN Panic ELSE Ok(wrapped)

I64Add(a, b) == IF InRange(a + b) THEN Ok(a + b) ELSE Overflowed(Wrap(a + b))

I64Sub(a, b) == IF InRange(a - b) THEN Ok(a - b) ELSE Overflowed(Wrap(a - b))

RECURSIVE WrapMul(_, _)
\* a * b modulo 2^IntBits, by doubling, for b >= 0
WrapMul(a, b) ==
    IF b = 0 THEN 0
    ELSE LET h == WrapMul(a, b \div 2)
             d == Wrap(h + h)
         IN  IF b % 2 = 1 THEN Wrap(d + a) ELSE d

I64Mul(a, b) ==
    IF TruncDiv(MinInt, b) <= a /\ a <= MaxInt \div b
    THEN Ok(a * b)
    ELSE Overflowed(WrapMul(a, b))

(***************************************************************************)
(* Strings and number formatting.                                          *)
(***************************************************************************)
DigitChars == <<"0", "1", "2", "3", "4", "5", "6", "7", "8", "9">>

IsDigit(c) == \E i \in 1..10 : DigitChars[i] = c

DigitVal(c) == (CHOOSE i \in 1..10 : DigitChars[i] = c) - 1

RECURSIVE DecDigits(_)
\* the decimal digits of n >= 0
DecDigits(n) ==
    IF n < 10 THEN <<DigitChars[n + 1]>>
    ELSE DecDigits(n \div 10) \o <<DigitChars[(n % 10) + 1]>>

\* format!("{}", n)
FmtInt(n) == IF n < 0 THEN <<"-">> \o DecDigits(0 - n) ELSE DecDigits(n)

\* format!("{:02}", n): zero padded to a width of two, the sign counted in
FmtPad2(n) ==
    IF n < 0 THEN <<"-">> \o DecDigits(0 - n)
    ELSE IF n < 10 THEN <<"0">> \o DecDigits(n)
    ELSE DecDigits(n)

(***************************************************************************)
(* The formatters.                                                         *)
(***************************************************************************)
\* secs_to_mil with "{}" for "{:02}"
secs_to_mil_unpadded(secs) ==
    LET hours   == TruncRem(TruncDiv(secs, 3600), 24)
        minutes == TruncDiv(TruncRem(secs, 3600), 60)
        seconds == TruncRem(secs, 60)
    IN  FmtInt(hours) \o <<":">> \o FmtInt(minutes) \o <<":">> \o FmtInt(seconds)

secs_to_mil(secs) ==
    LET hours   == TruncRem(TruncDiv(secs, 3600), 24)
        minutes == TruncDiv(TruncRem(secs, 3600), 60)
        seconds == TruncRem(secs, 60)
    IN  FmtPad2(hours) \o <<":">> \o FmtPad2(minutes) \o <<":">> \o FmtPad2(seconds)

\* secs_to_mer without the step that shows hour 0 as 12
secs_to_mer_zero_hour(secs) ==
    LET hours0   == TruncRem(TruncDiv(secs, 3600), 24)
        minutes  == TruncDiv(TruncRem(secs, 3600), 60)
        seconds  == TruncRem(secs, 60)
        pm       == hours0 >= 12
        hours    == IF pm THEN TruncRem(hours0, 12) ELSE hours0
        meridiem == IF pm THEN <<"P", "M">> ELSE <<"A", "M">>
    IN  FmtPad2(hours) \o <<":">> \o FmtPad2(minutes) \o <<":">> \o FmtPad2(seconds)
            \o <<" ">> \o meridiem

secs_to_mer(secs) ==
    LET hours0   == TruncRem(TruncDiv(secs, 3600), 24)
        minutes  == TruncDiv(TruncRem(secs, 3600), 60)
        seconds  == TruncRem(secs, 60)
        pm       == hours0 >= 12
        hours1   == IF pm THEN TruncRem(hours0, 12) ELSE hours0
        meridiem == IF pm THEN <<"P", "M">> ELSE <<"A", "M">>
        hours    == IF hours1 = 0 THEN 12 ELSE hours1
    IN  FmtPad2(hours) \o <<":">> \o FmtPad2(minutes) \o <<":">> \o FmtPad2(seconds)
            \o <<" ">> \o meridiem

Abs(x) == IF x < 0 THEN 0 - x ELSE x

diff_to_days(diff) ==
    LET days == TruncDiv(diff, 86400)
    IN  IF days > 0 THEN <<" ", "+">> \o FmtInt(days) \o <<" ", "d", "a", "y", "s">>
        ELSE IF days < 0 THEN <<" ", "-">> \o FmtInt(Abs(days)) \o <<" ", "d", "a", "y", "s">>
        ELSE <<>>

(***************************************************************************)
(* The parser.                                                             *)
(***************************************************************************)
RECURSIVE Split(_, _)
\* str::split(sep): the fields between the separators, at least one
Split(s, sep) ==
    IF \E i \in 1..Len(s) : s[i] = sep
    THEN LET i == CHOOSE j \in 1..Len(s) : s[j] = sep /\ \A k \in 1..(j - 1) : s[k] # sep
         IN  <<SubSeq(s, 1, i - 1)>> \o Split(SubSeq(s, i + 1, Len(s)), sep)
    ELSE <<s>>

\* the k-th next() of the split, with unwrap_or("")
NextOr(fields, k) == IF k <= Len(fields) THEN fields[k] ELSE <<>>

\* str::replace('.', "")
RemoveDots(s) == SelectSeq(s, LAMBDA c : c # ".")

ToUpperChar(c) ==
    CASE c = "a" -> "A"
      [] c = "p" -> "P"
      [] c = "m" -> "M"
      [] c = "x" -> "X"
      [] OTHER   -> c

\* str::to_uppercase
to_uppercase(s) == [i \in 1..Len(s) |-> ToUpperChar(s[i])]

\* str::contains("PM")
ContainsPM(s) == \E i \in 1..(Len(s) - 1) : s[i] = "P" /\ s[i + 1] = "M"

RECURSIVE DigitsVal(_)
DigitsVal(ds) ==
    IF ds = <<>> THEN 0
    ELSE 10 * DigitsVal(SubSeq(ds, 1, Len(ds) - 1)) + DigitVal(ds[Len(ds)])

\* str::parse::<i64>: an optional sign, then one digit or more and nothing
\* else; a value outside the i64 range is an error too
parse_i64(s) ==
    LET signed == Len(s) >= 1 /\ s[1] \in {"+", "-"}
        ds     == IF signed THEN SubSeq(s, 2, Len(s)) ELSE s
        val    == IF signed /\ s[1] = "-" THEN 0 - DigitsVal(ds) ELSE DigitsVal(ds)
    IN  IF ds = <<>> \/ \E i \in 1..Len(ds) : ~IsDigit(ds[i]) THEN Err
        ELSE IF ~InRange(val) THEN Err
        ELSE Ok(val)

\* Result::unwrap_or(0)
unwrap_or_0(r) == IF r.ok THEN r.v ELSE 0

\* Watch::str_to_secs; the source's second parameter, is_time_span, is true
\* when the string is a clock time (Watch::new passes true) and false when it
\* is a duration (the operators pass false)
str_to_secs(time, is_time_span) ==
    LET pm      == ContainsPM(to_uppercase(RemoveDots(time))) /\ is_time_span
        fields  == Split(Split(time, " ")[1], ":")
        hours0  == unwrap_or_0(parse_i64(NextOr(fields, 1)))
        minutes == unwrap_or_0(parse_i64(NextOr(fields, 2)))
        seconds == unwrap_or_0(parse_i64(NextOr(fields, 3)))
        hours   == IF pm THEN I64Add(hours0, 12) ELSE Ok(hours0)
        hsecs   == IF hours.ok THEN I64Mul(hours.v, 3600) ELSE Panic
        msecs   == IF hsecs.ok THEN I64Mul(minutes, 60) ELSE Panic
        hm      == IF msecs.ok THEN I64Add(hsecs.v, msecs.v) ELSE Panic
    IN  IF hm.ok THEN I64Add(hm.v, seconds) ELSE Panic


(***************************************************************************)
(* String literals of the source's tests and documentation.                *)
(***************************************************************************)
\* "00:00:00"
S00_00_00 == <<"0", "0", ":", "0", "0", ":", "0", "0">>

\* "00:00:01"
S00_00_01 == <<"0", "0", ":", "0", "0", ":", "0", "1">>

\* "13:33:23"
S13_33_23 == <<"1", "3", ":", "3", "3", ":", "2", "3">>

\* "01:33:23 PM"
S01_33_23_PM == <<"0", "1", ":", "3", "3", ":", "2", "3", " ", "P", "M">>

\* "13:34"
S13_34 == <<"1", "3", ":", "3", "4">>

\* "23:59:59"
S23_59_59 == <<"2", "3", ":", "5", "9", ":", "5", "9">>

\* "0:23:03"
D0_23_03 == <<"0", ":", "2", "3", ":", "0", "3">>

\* "23:44:03"
D23_44_03 == <<"2", "3", ":", "4", "4", ":", "0", "3">>

\* "01:23:45 PM"
D01_23_45_PM == <<"0", "1", ":", "2", "3", ":", "4", "5", " ", "P", "M">>


(***************************************************************************)
(* The Watch and its operations.  Each returns Ok(value) or Panic.         *)
(***************************************************************************)
\* Watch::new: start from the parser, the rest from Default (offset 0)
Watch_new(time, meridiem) ==
    LET secs == str_to_secs(time, TRUE)
    IN  IF secs.ok THEN Ok([start |-> secs.v, offset |-> 0, meridiem |-> meridiem])
        ELSE Panic

add_offset(self) == I64Add(self.start, self.offset)

change_meridiem(self, meridiem) == [self EXCEPT !.meridiem = meridiem]

\* add_i64 with the other fields taken from Default, as Watch::new takes them
add_i64_from_default(self, rhs) ==
    LET o == I64Add(self.offset, rhs)
    IN  IF o.ok THEN Ok([start |-> 0, offset |-> o.v, meridiem |-> FALSE]) ELSE Panic

\* impl Add<i64> for Watch
add_i64(self, rhs) ==
    LET o == I64Add(self.offset, rhs)
    IN  IF o.ok THEN Ok([self EXCEPT !.offset = o.v]) ELSE Panic

\* impl Sub<i64> for Watch
sub_i64(self, rhs) ==
    LET o == I64Sub(self.offset, rhs)
    IN  IF o.ok THEN Ok([self EXCEPT !.offset = o.v]) ELSE Panic

\* add_str parsing its operand as a clock time
add_str_clock_time(self, rhs) ==
    LET secs == str_to_secs(rhs, TRUE)
    IN  IF secs.ok THEN add_i64(self, secs.v) ELSE Panic

\* impl Add<&str> for Watch
add_str(self, rhs) ==
    LET secs == str_to_secs(rhs, FALSE)
    IN  IF secs.ok THEN add_i64(self, secs.v) ELSE Panic

\* impl Sub<&str> for Watch
sub_str(self, rhs) ==
    LET secs == str_to_secs(rhs, FALSE)
    IN  IF secs.ok THEN sub_i64(self, secs.v) ELSE Panic

\* impl fmt::Display for Watch
fmt(self) ==
    LET sum   == add_offset(self)
        r     == IF sum.ok THEN I64Add(TruncRem(sum.v, 86400), 86400) ELSE Panic
        end   == TruncRem(r.v, 86400)
        os    == IF r.ok THEN I64Add(self.offset, self.start) ELSE Panic
        diff  == IF os.ok THEN I64Sub(os.v, end) ELSE Panic
        end_str == IF self.meridiem THEN secs_to_mer(end) ELSE secs_to_mil(end)
    IN  IF diff.ok THEN Ok(end_str \o diff_to_days(diff.v)) ELSE Panic

(***************************************************************************)
(* The inputs.                                                             *)
(***************************************************************************)
StartTimes ==
    { S00_00_00, S00_00_01, S13_33_23, S01_33_23_PM, S13_34, S23_59_59 }

IntOperands == {1000, 7989, 100000000, -5, MaxInt, MinInt}

StrOperands == { D0_23_03, D23_44_03, D01_23_45_PM }

NoArg == <<>>

(***************************************************************************)
(* The program: a Watch built by Watch::new, then any operations on it.    *)
(***************************************************************************)
Init ==
    /\ overflow_checks \in BOOLEAN
    /\ input \in StartTimes
    /\ \E meridiem \in BOOLEAN : w = Watch_new(input, meridiem).v
    /\ last = [op |-> "new", arg |-> input, before |-> w, ret |-> Ok(w)]
    /\ panicked = FALSE
    /\ nops = 0

\* one operation op(arg) with result res; a mutating one stores its Watch
Step(op, arg, res, mutating) ==
    /\ ~panicked
    /\ nops < MaxOps
    /\ nops' = nops + 1
    /\ last' = [op |-> op, arg |-> arg, before |-> w, ret |-> res]
    /\ panicked' = ~res.ok
    /\ w' = IF mutating /\ res.ok THEN res.v ELSE w
    /\ UNCHANGED <<overflow_checks, input>>

\* let v = watch + rhs
AddI64 == \E rhs \in IntOperands : Step("add_i64", rhs, add_i64(w, rhs), FALSE)

\* let v = watch - rhs
SubI64 == \E rhs \in IntOperands : Step("sub_i64", rhs, sub_i64(w, rhs), FALSE)

\* let v = watch + "rhs"
AddStr == \E rhs \in StrOperands : Step("add_str", rhs, add_str(w, rhs), FALSE)

\* let v = watch - "rhs"
SubStr == \E rhs \in StrOperands : Step("sub_str", rhs, sub_str(w, rhs), FALSE)

\* watch += rhs: *self = *self + other
AddAssignI64 == \E rhs \in IntOperands : Step("add_assign_i64", rhs, add_i64(w, rhs), TRUE)

\* watch -= rhs: *self = *self - other
SubAssignI64 == \E rhs \in IntOperands : Step("sub_assign_i64", rhs, sub_i64(w, rhs), TRUE)

\* watch += "rhs"
AddAssignStr == \E rhs \in StrOperands : Step("add_assign_str", rhs, add_str(w, rhs), TRUE)

\* watch -= "rhs"
SubAssignStr == \E rhs \in StrOperands : Step("sub_assign_str", rhs, sub_str(w, rhs), TRUE)

\* watch.change_meridiem(meridiem)
ChangeMeridiem ==
    \E meridiem \in BOOLEAN :
        Step("change_meridiem", meridiem, Ok(change_meridiem(w, meridiem)), TRUE)

\* watch.add_offset()
AddOffset == Step("add_offset", NoArg, add_offset(w), FALSE)

\* format!("{}", watch)
Display == Step("fmt", NoArg, fmt(w), FALSE)

Next ==
    \/ AddI64
    \/ SubI64
    \/ AddStr
    \/ SubStr
    \/ AddAssignI64
    \/ SubAssignI64
    \/ AddAssignStr
    \/ SubAssignStr
    \/ ChangeMeridiem
    \/ AddOffset
    \/ Display

Spec == Init /\ [][Next]_vars


(***************************************************************************)
(* What the claims compare the program with: the clock time and the day    *)
(* count of a number of seconds, in unbounded integers.                    *)
(***************************************************************************)
SecsPerDay == 86400

\* n in 0..99 as two digits
Two(n) == <<DigitChars[(n \div 10) + 1], DigitChars[(n % 10) + 1]>>

\* the time of day T in 0..86399 on a 24-hour clock
Clock24(T) == Two(T \div 3600) \o <<":">> \o Two((T \div 60) % 60) \o <<":">> \o Two(T % 60)

\* the time of day T in 0..86399 on a 12-hour clock
Clock12(T) ==
    LET h   == T \div 3600
        h12 == IF h = 0 THEN 12 ELSE IF h <= 12 THEN h ELSE h - 12
    IN  Two(h12) \o <<":">> \o Two((T \div 60) % 60) \o <<":">> \o Two(T % 60)
            \o (IF h < 12 THEN <<" ", "A", "M">> ELSE <<" ", "P", "M">>)

ClockOf(T, meridiem) == IF meridiem THEN Clock12(T) ELSE Clock24(T)

\* the day suffix of a day count d
DaySuffix(d) ==
    IF d > 0 THEN <<" ", "+">> \o DecDigits(d) \o <<" ", "d", "a", "y", "s">>
    ELSE IF d < 0 THEN <<" ", "-">> \o DecDigits(0 - d) \o <<" ", "d", "a", "y", "s">>
    ELSE <<>>

\* the rendering of a Watch whose start + offset is total
Rendering(total, meridiem) ==
    ClockOf(total % SecsPerDay, meridiem) \o DaySuffix(total \div SecsPerDay)

ArithmeticOps ==
    {"add_i64", "sub_i64", "add_str", "sub_str",
     "add_assign_i64", "sub_assign_i64", "add_assign_str", "sub_assign_str"}

(***************************************************************************)
(* C1: rendering any reachable Watch gives the time of day                 *)
(* (start + offset) floor-mod 86400 followed by the suffix of the day      *)
(* count d with d * 86400 + T = start + offset.                            *)
(***************************************************************************)
C1_RenderAnyWatch ==
    last.op = "fmt" =>
        /\ last.ret.ok
        /\ last.ret.v = Rendering(w.start + w.offset, w.meridiem)

\* the same, for the Watches whose start + offset and whose day difference
\* fit the integer type
C1_RenderInRange ==
    (/\ last.op = "fmt"
     /\ InRange(w.start + w.offset)
     /\ InRange(w.start + w.offset - ((w.start + w.offset) % SecsPerDay))) =>
        /\ last.ret.ok
        /\ last.ret.v = Rendering(w.start + w.offset, w.meridiem)

(***************************************************************************)
(* C2: for every integer s, the time of day of the rendering of            *)
(* Watch::new("00:00:00", false) + s is the 24-hour clock time of          *)
(* s floor-mod 86400.                                                      *)
(***************************************************************************)
C2_TimeOfDayEverySecs ==
    (last.op = "fmt" /\ input = S00_00_00 /\ ~w.meridiem) =>
        /\ last.ret.ok
        /\ SubSeq(last.ret.v, 1, 8) = Clock24(w.offset % SecsPerDay)

(***************************************************************************)
(* C3: no operation fails: every operation on a Watch built by new         *)
(* completes and returns a value.                                          *)
(***************************************************************************)
C3_NoOperationFails == ~panicked /\ last.ret.ok

(***************************************************************************)
(* C6: w += d followed by w -= d (and -= followed by +=) completes and     *)
(* leaves offset and the rendered string as they were, for every d.        *)
(***************************************************************************)
C6_Reversible ==
    [][/\ last'.op \in {"add_assign_i64", "sub_assign_i64"} => last'.ret.ok
       /\ (/\ \/ last.op = "add_assign_i64" /\ last'.op = "sub_assign_i64"
              \/ last.op = "sub_assign_i64" /\ last'.op = "add_assign_i64"
              \/ last.op = "add_assign_str" /\ last'.op = "sub_assign_str"
              \/ last.op = "sub_assign_str" /\ last'.op = "add_assign_str"
           /\ last'.arg = last.arg)
          => /\ w'.offset = last.before.offset
             /\ fmt(w') = fmt(last.before)]_vars


\* the part of C6 that does not rest on the operations completing: when both
\* complete, offset and the rendering are as they were
C6_ReversibleWhenCompleted ==
    [][(/\ \/ last.op = "add_assign_i64" /\ last'.op = "sub_assign_i64"
           \/ last.op = "sub_assign_i64" /\ last'.op = "add_assign_i64"
           \/ last.op = "add_assign_str" /\ last'.op = "sub_assign_str"
           \/ last.op = "sub_assign_str" /\ last'.op = "add_assign_str"
        /\ last'.arg = last.arg
        /\ last'.ret.ok)
       => /\ w'.offset = last.before.offset
          /\ fmt(w') = fmt(last.before)]_vars

(***************************************************************************)
(* C7: start keeps the value new gave it through every operation; the      *)
(* arithmetic operations leave meridiem (and, in the Watch they return,    *)
(* start) alone; change_meridiem changes only meridiem and leaves          *)
(* add_offset() unchanged; add_offset and rendering change nothing.        *)
(***************************************************************************)
C7_Frame ==
    /\ w.start = str_to_secs(input, TRUE).v
    /\ w.start = last.before.start
    /\ last.op \in ArithmeticOps =>
          /\ w.meridiem = last.before.meridiem
          /\ last.ret.ok =>
                /\ last.ret.v.start = last.before.start
                /\ last.ret.v.meridiem = last.before.meridiem
    /\ last.op = "change_meridiem" =>
          /\ w.meridiem = last.arg
          /\ w.offset = last.before.offset
          /\ add_offset(w) = add_offset(last.before)
    /\ last.op \in {"add_offset", "fmt"} => w = last.before

\* an arithmetic operation moved offset, then change_meridiem flipped the format
C7_Witness ==
    /\ last.op = "change_meridiem"
    /\ w.meridiem # last.before.meridiem
    /\ w.offset # 0
    /\ w.start # 0

(***************************************************************************)
(* C9: a string operand acts as the integer str_to_secs(s, false); a PM    *)
(* marker in a duration string adds nothing, while in the string given to  *)
(* new it adds 12 hours; w += x stores the Watch that w + x returns, and   *)
(* w + x leaves w as it was.                                               *)
(***************************************************************************)
HasPM(s) == ContainsPM(to_uppercase(RemoveDots(s)))

\* the seconds of s without its marker
Unmarked(s) == str_to_secs(Split(s, " ")[1], FALSE)

Watch_default == [start |-> 0, offset |-> 0, meridiem |-> FALSE]

InitFmt ==
    /\ overflow_checks \in BOOLEAN
    /\ input \in 0..(SecsPerDay - 1)
    /\ w = Watch_default
    /\ last = [op |-> "none", arg |-> NoArg, before |-> w, ret |-> Ok(NoArg)]
    /\ panicked = FALSE
    /\ nops = 0

\* a call of an associated function f(arg) that takes no Watch
Call(op, arg, res) ==
    /\ ~panicked
    /\ nops = 0
    /\ nops' = 1
    /\ last' = [op |-> op, arg |-> arg, before |-> w, ret |-> res]
    /\ panicked' = ~res.ok
    /\ UNCHANGED <<overflow_checks, input, w>>

SecsToMil == Call("secs_to_mil", input, Ok(secs_to_mil(input)))

SecsToMer == Call("secs_to_mer", input, Ok(secs_to_mer(input)))

NextFmt == SecsToMil \/ SecsToMer

SpecFmt == InitFmt /\ [][NextFmt]_vars

(***************************************************************************)
(* C8: for every seconds value in [0, 86400), secs_to_mer renders hour 0   *)
(* as 12 AM, hours 1..11 unchanged with AM, hour 12 as 12 PM and hours     *)
(* 13..23 as hour - 12 with PM; the displayed hour is in 1..12; minutes    *)
(* and seconds are those of the 24-hour rendering.                         *)
(***************************************************************************)
C8_TwelveHourFormatter ==
    last.op = "secs_to_mer" =>
        LET s    == last.ret.v
            h    == input \div 3600
            hh   == DigitsVal(SubSeq(s, 1, 2))
            mark == SubSeq(s, 9, 11)
        IN  /\ Len(s) = 11
            /\ \A i \in {1, 2} : IsDigit(s[i])
            /\ hh \in 1..12
            /\ h = 0 => hh = 12 /\ mark = <<" ", "A", "M">>
            /\ h \in 1..11 => hh = h /\ mark = <<" ", "A", "M">>
            /\ h = 12 => hh = 12 /\ mark = <<" ", "P", "M">>
            /\ h \in 13..23 => hh = h - 12 /\ mark = <<" ", "P", "M">>
            /\ SubSeq(s, 3, 8) = SubSeq(secs_to_mil(input), 3, 8)
            /\ SubSeq(s, 3, 8) = <<":">> \o Two((input \div 60) % 60) \o <<":">> \o Two(input % 60)

\* 13:00:05 renders as "01:00:05 PM"
C8_Witness ==
    /\ last.op = "secs_to_mer"
    /\ input = 13 * 3600 + 5
    /\ last.ret.v = <<"0", "1", ":", "0", "0", ":", "0", "5", " ", "P", "M">>


(***************************************************************************)
(* Round trip: a Watch built from each 24-hour clock string, then          *)
(* rendered.                                                               *)
(***************************************************************************)
\* every zero-padded "HH:MM:SS" with HH in 00..23 and MM, SS in 00..59
Clock24Strings ==
    { Two(h) \o <<":">> \o Two(m) \o <<":">> \o Two(s) : h \in 0..23, m \in 0..59, s \in 0..59 }

InitRoundTrip ==
    /\ overflow_checks \in BOOLEAN
    /\ input \in Clock24Strings
    /\ w = Watch_new(input, FALSE).v
    /\ last = [op |-> "new", arg |-> input, before |-> w, ret |-> Ok(w)]
    /\ panicked = FALSE
    /\ nops = 0

NextRoundTrip == Display

SpecRoundTrip == InitRoundTrip /\ [][NextRoundTrip]_vars

(***************************************************************************)
(* C5: for every zero-padded "HH:MM:SS" with HH in 00..23 and MM, SS in    *)
(* 00..59, rendering Watch::new(string, false) at once gives that string   *)
(* back, with no day suffix.                                               *)
(***************************************************************************)
C5_RoundTrip24 ==
    (last.op = "fmt" /\ ~w.meridiem /\ w.offset = 0) =>
        /\ last.ret.ok
        /\ last.ret.v = input

\* "23:59:59" has been rendered as itself
C5_Witness ==
    /\ last.op = "fmt"
    /\ ~w.meridiem
    /\ w.offset = 0
    /\ input = S23_59_59
    /\ w.start = 86399
    /\ last.ret.v = S23_59_59

(***************************************************************************)
(* 12-hour start times: a Watch built from each 12-hour clock string,      *)
(* then offset and rendered.                                               *)
(***************************************************************************)
ClockFieldSamples == {0, 1, 30, 59}

\* "HH:MM:SS AM" and "HH:MM:SS PM" with HH in 01..12
Clock12Strings ==
    { Two(h) \o <<":">> \o Two(m) \o <<":">> \o Two(s) \o mk :
        h \in 1..12, m \in ClockFieldSamples, s \in ClockFieldSamples,
        mk \in {<<" ", "A", "M">>, <<" ", "P", "M">>} }

InitClock12 ==
    /\ overflow_checks \in BOOLEAN
    /\ input \in Clock12Strings
    /\ \E meridiem \in BOOLEAN : w = Watch_new(input, meridiem).v
    /\ last = [op |-> "new", arg |-> input, before |-> w, ret |-> Ok(w)]
    /\ panicked = FALSE
    /\ nops = 0

NextClock12 == AddAssignI64 \/ Display

SpecClock12 == InitClock12 /\ [][NextClock12]_vars

\* the seconds after midnight that the 12-hour string s names
Denoted12(s) ==
    LET h == DigitsVal(SubSeq(s, 1, 2))
        m == DigitsVal(SubSeq(s, 4, 5))
        c == DigitsVal(SubSeq(s, 7, 8))
    IN  ((h % 12) + (IF s[10] = "P" THEN 12 ELSE 0)) * 3600 + m * 60 + c

(***************************************************************************)
(* C4: Watch::new("HH:MM:SS AM|PM", true) with HH in 01..12 renders, with  *)
(* no offset, as the same string and no day suffix, and after an offset    *)
(* as the clock time that many seconds after the given time.               *)
(***************************************************************************)
C4_TwelveHourStart ==
    (last.op = "fmt" /\ w.meridiem) =>
        /\ last.ret.ok
        /\ w.offset = 0 => last.ret.v = input
        /\ last.ret.v = Rendering(Denoted12(input) + w.offset, TRUE)

\* the same for the hours 01..11, where the sums fit the integer type
C4_HoursOneToEleven ==
    (/\ last.op = "fmt"
     /\ w.meridiem
     /\ DigitsVal(SubSeq(input, 1, 2)) # 12
     /\ InRange(w.start + w.offset)
     /\ InRange(w.start + w.offset - ((w.start + w.offset) % SecsPerDay))) =>
        /\ last.ret.ok
        /\ w.offset = 0 => last.ret.v = input
        /\ last.ret.v = Rendering(Denoted12(input) + w.offset, TRUE)


(***************************************************************************)
(* The parser alone: str_to_secs applied to strings of the form            *)
(* H[:MM[:SS]], with or without a meridiem marker after whitespace.  Each  *)
(* input carries the integer every field stands for (0 for a field that is *)
(* no integer) and whether its marker is PM.                               *)
(***************************************************************************)
\* the hour field, the last one no integer
HourFields ==
    { [text |-> <<"0">>, val |-> 0],
      [text |-> <<"1">>, val |-> 1],
      [text |-> <<"0", "1">>, val |-> 1],
      [text |-> <<"1", "2">>, val |-> 12],
      [text |-> <<"1", "3">>, val |-> 13],
      [text |-> <<"2", "3">>, val |-> 23],
      [text |-> <<"2", "4">>, val |-> 24],
      [text |-> <<"9", "9", "9", "9", "9">>, val |-> 99999],
      [text |-> <<"1", "x">>, val |-> 0] }

\* the minutes field, the last one no integer
MinuteFields ==
    { [text |-> <<"0", "0">>, val |-> 0],
      [text |-> <<"3", "4">>, val |-> 34],
      [text |-> <<"5", "9">>, val |-> 59],
      [text |-> <<"x", "5">>, val |-> 0] }

\* the seconds field, the last one empty
SecondFields ==
    { [text |-> <<"0", "0">>, val |-> 0],
      [text |-> <<"0", "3">>, val |-> 3],
      [text |-> <<"5", "9">>, val |-> 59],
      [text |-> <<>>, val |-> 0] }

\* no marker; AM and PM in either case, with and without periods, after a space, two spaces or a tab
Markers ==
    { [text |-> <<>>, pm |-> FALSE],
      [text |-> <<" ", "A", "M">>, pm |-> FALSE],
      [text |-> <<" ", "P", "M">>, pm |-> TRUE],
      [text |-> <<" ", "p", "m">>, pm |-> TRUE],
      [text |-> <<" ", "p", ".", "m", ".">>, pm |-> TRUE],
      [text |-> <<" ", "P", ".", "M", ".">>, pm |-> TRUE],
      [text |-> <<" ", "a", ".", "m", ".">>, pm |-> FALSE],
      [text |-> <<" ", " ", "P", "M">>, pm |-> TRUE],
      [text |-> <<"\t", "P", "M">>, pm |-> TRUE] }

ParserInputs ==
    { [text    |-> h.text \o mk.text,
       hours   |-> h.val, minutes |-> 0, seconds |-> 0, pm |-> mk.pm] :
        h \in HourFields, mk \in Markers }
    \cup
    { [text    |-> h.text \o <<":">> \o m.text \o mk.text,
       hours   |-> h.val, minutes |-> m.val, seconds |-> 0, pm |-> mk.pm] :
        h \in HourFields, m \in MinuteFields, mk \in Markers }
    \cup
    { [text    |-> h.text \o <<":">> \o m.text \o <<":">> \o s.text \o mk.text,
       hours   |-> h.val, minutes |-> m.val, seconds |-> s.val, pm |-> mk.pm] :
        h \in HourFields, m \in MinuteFields, s \in SecondFields, mk \in Markers }

InitParse ==
    /\ overflow_checks \in BOOLEAN
    /\ input \in ParserInputs
    /\ w = Watch_default
    /\ last = [op |-> "none", arg |-> NoArg, before |-> w, ret |-> Ok(NoArg)]
    /\ panicked = FALSE
    /\ nops = 0

\* Watch::str_to_secs(time, is_time_span)
StrToSecs ==
    \E is_time_span \in BOOLEAN :
        Call("str_to_secs", is_time_span, str_to_secs(input.text, is_time_span))

NextParse == StrToSecs

SpecParse == InitParse /\ [][NextParse]_vars

\* hours * 3600 + minutes * 60 + seconds of the input's fields, and 12 hours
\* more when its marker is PM and the caller says it is a clock time
ExpectedSecs(in, clock_time) ==
    in.hours * 3600 + in.minutes * 60 + in.seconds
        + (IF in.pm /\ clock_time THEN 12 * 3600 ELSE 0)

(***************************************************************************)
(* C10: for every string H[:MM[:SS]] with an optional marker after         *)
(* whitespace, str_to_secs returns hours*3600 + minutes*60 + seconds, each *)
(* field on its own, a missing or non-integer field counting as 0, with no *)
(* range check and no error, and 12 hours more exactly when the marker is  *)
(* PM and the caller passed the clock-time indication.                     *)
(***************************************************************************)
C10_Parser ==
    last.op = "str_to_secs" =>
        /\ last.ret.ok
        /\ last.ret.v = ExpectedSecs(input, last.arg)

\* the same for the inputs whose marker follows spaces and whose result fits
\* the integer type
C10_SpacesInRange ==
    (/\ last.op = "str_to_secs"
     /\ \A i \in 1..Len(input.text) : input.text[i] # "\t"
     /\ InRange(ExpectedSecs(input, TRUE))) =>
        /\ last.ret.ok
        /\ last.ret.v = ExpectedSecs(input, last.arg)


=============================================================================
